---- MODULE Spec2Model ----
(***************************************************************************)
(* Model of the Ansible module get_pubip (src/get_pubip.py): the class     *)
(* PubIpFacts with run() and try_alternative_services(), and main().       *)
(*                                                                         *)
(* Text is a sequence of one-character strings.  Python values (None, str, *)
(* JSON numbers, dicts) are records tagged by the field t.                 *)
(***************************************************************************)
EXTENDS Integers, Sequences, FiniteSets, TLC

VARIABLES api_service, api_url, pc, idx, gets, resp, outcomes, warned, result, failure

vars == <<api_service, api_url, pc, idx, gets, resp, outcomes, warned, result, failure>>

----------------------------------------------------------------------------
(* Bounds of the model.                                                    *)

\* longest run of digits in one group of a generated body
MaxGroup == 4
\* most whitespace characters put around a generated body
MaxPad == 1

----------------------------------------------------------------------------
(* Characters and Python values.                                           *)

Digits == {"0", "1", "2", "3", "4", "5", "6", "7", "8", "9"}

\* characters str.strip() removes (those the bodies use)
Whitespace == {" ", "\n", "\t", "\r"}

\* characters json.loads skips around a document
JsonWhitespace == {" ", "\n", "\t", "\r"}

PyNone == [t |-> "none"]

PyStr(s) == [t |-> "str", v |-> s]

PyNum(s) == [t |-> "num", v |-> s]

PyDict(pairs) == [t |-> "dict", v |-> pairs]

\* Truthy with the test `is not None` in place of truthiness
TruthyNotNone(x) == x.t # "none"

\* Python truthiness, as `if ip:` / `if not result['public_ip']:` test it
Truthy(x) ==
    CASE x.t = "none" -> FALSE
      [] x.t = "str"  -> Len(x.v) > 0
      [] x.t = "num"  -> \E i \in 1..Len(x.v) : x.v[i] \in Digits \ {"0"}
      [] x.t = "dict" -> Len(x.v) > 0

----------------------------------------------------------------------------
(* str.strip()                                                             *)

\* first position from i upwards that holds no whitespace
RECURSIVE LStrip(_, _)
LStrip(s, i) == IF i <= Len(s) /\ s[i] \in Whitespace THEN LStrip(s, i + 1) ELSE i

\* last position from j downwards that holds no whitespace
RECURSIVE RStrip(_, _)
RStrip(s, j) == IF j >= 1 /\ s[j] \in Whitespace THEN RStrip(s, j - 1) ELSE j

Strip(s) == SubSeq(s, LStrip(s, 1), RStrip(s, Len(s)))

----------------------------------------------------------------------------
(* The regular expression \d{1,3}\.\d{1,3}\.\d{1,3}\.\d{1,3}               *)

\* number of consecutive digits of s from position i on
RECURSIVE DigitRun(_, _)
DigitRun(s, i) == IF i <= Len(s) /\ s[i] \in Digits THEN 1 + DigitRun(s, i + 1) ELSE 0

Min(a, b) == IF a <= b THEN a ELSE b

\* Position after a match of n dot-separated groups of 1 to 3 digits that
\* starts at i, or 0 when there is none.  A group followed by a dot has to
\* be a whole run of digits; the last group takes greedily up to 3 digits.
RECURSIVE GroupsAt(_, _, _)
GroupsAt(s, i, n) ==
    LET r == DigitRun(s, i) IN
    IF r = 0 THEN 0
    ELSE IF n = 1 THEN i + Min(r, 3)
    ELSE IF r <= 3 /\ i + r <= Len(s) /\ s[i + r] = "."
         THEN GroupsAt(s, i + r + 1, n - 1)
         ELSE 0

\* re.match(r'^...$', content): anchored at both ends; $ also matches just
\* before a final newline
FullMatch(s) ==
    LET e == GroupsAt(s, 1, 4) IN
    /\ e # 0
    /\ \/ e = Len(s) + 1
       \/ e = Len(s) /\ s[e] = "\n"

\* re.search(r'...', content).group(0): the leftmost match, or <<>> for no match
SearchMatch(s) ==
    LET starts == {i \in 1..Len(s) : GroupsAt(s, i, 4) # 0} IN
    IF starts = {} THEN <<>>
    ELSE LET i == CHOOSE j \in starts : \A k \in starts : j <= k
         IN SubSeq(s, i, GroupsAt(s, i, 4) - 1)

----------------------------------------------------------------------------
(* json.loads, for documents made of objects, strings and numbers.         *)
(* A parse step returns [ok, val, pos]: pos is the position after the      *)
(* value.                                                                  *)

JsonFail == [ok |-> FALSE, val |-> PyNone, pos |-> 0]

JsonOk(v, p) == [ok |-> TRUE, val |-> v, pos |-> p]

RECURSIVE SkipWs(_, _)
SkipWs(s, i) == IF i <= Len(s) /\ s[i] \in JsonWhitespace THEN SkipWs(s, i + 1) ELSE i

\* position of the next double quote at or after i, or 0
RECURSIVE FindQuote(_, _)
FindQuote(s, i) ==
    IF i > Len(s) THEN 0 ELSE IF s[i] = "\"" THEN i ELSE FindQuote(s, i + 1)

\* a string starting at the opening quote at i; control characters are
\* rejected (strict mode)
ParseString(s, i) ==
    LET j == FindQuote(s, i + 1) IN
    IF j = 0 THEN JsonFail
    ELSE LET body == SubSeq(s, i + 1, j - 1) IN
         IF \E k \in 1..Len(body) : body[k] \in {"\n", "\t", "\r"}
         THEN JsonFail
         ELSE JsonOk(PyStr(body), j + 1)

\* a number starting at the digit at i: (0|[1-9]\d*)(\.\d+)?
ParseNumber(s, i) ==
    LET intEnd  == IF s[i] = "0" THEN i + 1 ELSE i + DigitRun(s, i)
        frac    == IF intEnd <= Len(s) /\ s[intEnd] = "." THEN DigitRun(s, intEnd + 1) ELSE 0
        e       == IF frac > 0 THEN intEnd + 1 + frac ELSE intEnd
    IN JsonOk(PyNum(SubSeq(s, i, e - 1)), e)

RECURSIVE ParseValue(_, _), ParseMembers(_, _, _)

\* the members of an object, i at the opening quote of the next key
ParseMembers(s, i, acc) ==
    IF i > Len(s) \/ s[i] # "\"" THEN JsonFail
    ELSE LET k == ParseString(s, i) IN
         IF ~k.ok THEN JsonFail
         ELSE LET c == SkipWs(s, k.pos) IN
              IF c > Len(s) \/ s[c] # ":" THEN JsonFail
              ELSE LET v == ParseValue(s, SkipWs(s, c + 1)) IN
                   IF ~v.ok THEN JsonFail
                   ELSE LET n    == SkipWs(s, v.pos)
                            acc2 == Append(acc, <<k.val.v, v.val>>)
                        IN IF n > Len(s) THEN JsonFail
                           ELSE IF s[n] = "}" THEN JsonOk(PyDict(acc2), n + 1)
                           ELSE IF s[n] = "," THEN ParseMembers(s, SkipWs(s, n + 1), acc2)
                           ELSE JsonFail

ParseValue(s, i) ==
    IF i > Len(s) THEN JsonFail
    ELSE IF s[i] = "\"" THEN ParseString(s, i)
    ELSE IF s[i] \in Digits THEN ParseNumber(s, i)
    ELSE IF s[i] = "{"
         THEN LET n == SkipWs(s, i + 1) IN
              IF n <= Len(s) /\ s[n] = "}" THEN JsonOk(PyDict(<<>>), n + 1)
              ELSE ParseMembers(s, n, <<>>)
    ELSE JsonFail

\* json.loads(content): one value with whitespace around it and nothing else
JsonLoads(s) ==
    LET v == ParseValue(s, SkipWs(s, 1)) IN
    IF v.ok /\ SkipWs(s, v.pos) = Len(s) + 1 THEN v ELSE JsonFail

\* data.get('ip') on a dict: the value of the last member named ip, or None
DictGet(d, key) ==
    LET hits == {i \in 1..Len(d.v) : d.v[i][1] = key} IN
    IF hits = {} THEN PyNone
    ELSE d.v[CHOOSE i \in hits : \A j \in hits : j <= i][2]

IpKey == <<"i", "p">>

----------------------------------------------------------------------------
(* Response bodies the HTTP services may send.                             *)

DigitLine == <<"1", "2", "3", "4", "5", "6", "7", "8", "9">>

\* a group of n digits
Group(n) == SubSeq(DigitLine, 1, n)

Spaces(n) == [i \in 1..n |-> " "]

Newlines(n) == [i \in 1..n |-> "\n"]

GoodIp == <<"1", ".", "2", "0", ".", "3", ".", "4">>

Quoted(s) == <<"\"">> \o s \o <<"\"">>

\* {"ip":v}
IpObject(v) == <<"{">> \o Quoted(IpKey) \o <<":">> \o v \o <<"}">>

TextCores ==
    {<<>>, GoodIp \o <<".", "5">>}
    \cup {Group(a) \o <<".", "2", "0", ".", "3", ".", "4">> : a \in 0..MaxGroup}
    \cup {<<"1", ".", "2", "0", ".", "3", ".">> \o Group(d) : d \in 0..MaxGroup}
    \cup {<<"1", ".">> \o Group(m) \o <<".", "3", ".", "4", ".", "5">> : m \in 0..MaxGroup}

JsonCores ==
    {IpObject(v) : v \in {Quoted(GoodIp), Quoted(<<>>), Quoted(<<"x">>), <<"0">>, <<"7">>,
                          <<"{", "}">>, <<"\"", "1">>, <<>>,
                          Quoted(Group(MaxGroup) \o <<".", "2", ".", "3", ".", "4">>)}}
    \cup {<<"{", "}">>, Quoted(GoodIp),
          <<"{">> \o Quoted(<<"x">>) \o <<":">> \o Quoted(GoodIp) \o <<"}">>,
          <<"{", " ">> \o Quoted(IpKey) \o <<" ", ":", " ">> \o Quoted(GoodIp) \o <<" ", "}">>,
          <<"{">> \o Quoted(IpKey) \o <<":">> \o Quoted(<<"x">>) \o <<",">>
                  \o Quoted(IpKey) \o <<":">> \o Quoted(GoodIp) \o <<"}">>,
          <<"{">> \o Quoted(IpKey) \o <<":">> \o Quoted(GoodIp) \o <<",">>
                  \o Quoted(IpKey) \o <<":">> \o Quoted(<<>>) \o <<"}">>,
          <<"{">> \o Quoted(IpKey) \o <<":">> \o Quoted(GoodIp),
          <<"{">> \o Quoted(IpKey) \o <<":">> \o Quoted(GoodIp) \o <<",", "}">>}

\* a core alone, with whitespace around it, or inside other text
Wrap(c) ==
    UNION {{Spaces(l) \o c \o Newlines(n - l) : l \in 0..n} : n \in 0..MaxPad}
    \cup {<<"x">> \o c, c \o <<"x">>, <<"\t">> \o c \o <<" ", "x", "\r">>}

Bodies == UNION {Wrap(c) : c \in TextCores \cup JsonCores}

----------------------------------------------------------------------------
(* fetch_url and response.read()                                           *)

OkStatus == 200

\* statuses fetch_url reports for a request that did not succeed
\* (-1: no HTTP response at all)
FailStatuses == {-1, 503}

\* What one GET can do: raise, or return (response, info); on status 200
\* response.read() returns the body or raises.
Responses ==
    {[kind |-> "throw"]}
    \cup {[kind |-> "http", status |-> st, readable |-> FALSE, body |-> <<>>] : st \in FailStatuses}
    \cup {[kind |-> "http", status |-> OkStatus, readable |-> FALSE, body |-> <<>>]}
    \cup {[kind |-> "http", status |-> OkStatus, readable |-> TRUE, body |-> b] : b \in Bodies}

NoResponse == [kind |-> "none"]

----------------------------------------------------------------------------
(* PubIpFacts                                                              *)

Services == {"ipify", "2ip", "ipme", "custom"}

ApiUrls == {"", "https://api.myip.com"}

\* self.service_urls
service_urls(url) ==
    [s \in Services |->
        CASE s = "ipify"  -> "https://api.ipify.org?format=json"
          [] s = "2ip"    -> "https://2ip.io"
          [] s = "ipme"   -> "https://ifconfig.me/ip"
          [] s = "custom" -> url]

\* alternatives with two entries exchanged
alternativesSwapped ==
    <<"https://api.ipify.org?format=json", "https://ident.me",
      "https://ifconfig.me/ip", "https://icanhazip.com">>

\* the list of try_alternative_services
alternatives ==
    <<"https://api.ipify.org?format=json", "https://ifconfig.me/ip",
      "https://ident.me", "https://icanhazip.com">>

\* 'ipify' in url
ContainsIpify(url) == url \in {"https://api.ipify.org?format=json"}

\* Rejected with only the lookup for an unknown service left
RejectedUnknownOnly(service, custom_url) == service \notin Services

\* lines 70-74: run() refuses to go on when the url is missing or empty,
\* or the custom service has no api_url
Rejected(service, custom_url) ==
    \/ service_urls(custom_url)[service] = ""
    \/ service = "custom" /\ custom_url = ""

\* FallbackEligible extended to the other plain-text service
FallbackEligibleIpme(service) == service \in {"2ip", "ipme"}

\* FallbackEligible for every service
FallbackEligibleAny(service) == TRUE

\* line 91: the service whose failure is answered by the alternatives
FallbackEligible(service) == service = "2ip"

\* PrimaryParse with the plain-text branch taken for ipify too
PrimaryParseAsText(service, r) ==
    IF ~r.readable THEN [exc |-> TRUE, ip |-> PyNone, content |-> <<>>]
    ELSE LET content == Strip(r.body) IN
         IF FullMatch(content)
         THEN [exc |-> FALSE, ip |-> PyStr(content), content |-> content]
         ELSE LET m == SearchMatch(content) IN
              [exc |-> FALSE, ip |-> IF m # <<>> THEN PyStr(m) ELSE PyNone,
               content |-> content]

\* The try block of run(), lines 98-114, on a 200 response: the value left
\* in result['public_ip'], or exc when an exception is raised on the way.
PrimaryParse(service, r) ==
    IF ~r.readable THEN [exc |-> TRUE, ip |-> PyNone, content |-> <<>>]
    ELSE LET content == Strip(r.body) IN
         IF service = "ipify"
         THEN LET data == JsonLoads(content) IN
              IF ~data.ok \/ data.val.t # "dict"
              THEN [exc |-> TRUE, ip |-> PyNone, content |-> content]
              ELSE [exc |-> FALSE, ip |-> DictGet(data.val, IpKey), content |-> content]
         ELSE IF FullMatch(content)
              THEN [exc |-> FALSE, ip |-> PyStr(content), content |-> content]
              ELSE LET m == SearchMatch(content) IN
                   [exc |-> FALSE, ip |-> IF m # <<>> THEN PyStr(m) ELSE PyNone,
                    content |-> content]

\* AltParse without the call of strip()
AltParseNoStrip(url, r) ==
    IF ~r.readable THEN [exc |-> TRUE, ip |-> PyNone]
    ELSE LET content == r.body IN
         IF ContainsIpify(url)
         THEN LET data == JsonLoads(content) IN
              IF ~data.ok \/ data.val.t # "dict"
              THEN [exc |-> TRUE, ip |-> PyNone]
              ELSE [exc |-> FALSE, ip |-> DictGet(data.val, IpKey)]
         ELSE [exc |-> FALSE, ip |-> IF FullMatch(content) THEN PyStr(content) ELSE PyNone]

\* AltParse with the substring search of run() added
AltParseLenient(url, r) ==
    IF ~r.readable THEN [exc |-> TRUE, ip |-> PyNone]
    ELSE LET content == Strip(r.body) IN
         IF ContainsIpify(url)
         THEN LET data == JsonLoads(content) IN
              IF ~data.ok \/ data.val.t # "dict"
              THEN [exc |-> TRUE, ip |-> PyNone]
              ELSE [exc |-> FALSE, ip |-> DictGet(data.val, IpKey)]
         ELSE LET m == SearchMatch(content) IN
              [exc |-> FALSE, ip |-> IF m # <<>> THEN PyStr(m) ELSE PyNone]

\* The body of the loop of try_alternative_services on a 200 response,
\* lines 145-153: the value of ip, or exc when an exception is raised.
AltParse(url, r) ==
    IF ~r.readable THEN [exc |-> TRUE, ip |-> PyNone]
    ELSE LET content == Strip(r.body) IN
         IF ContainsIpify(url)
         THEN LET data == JsonLoads(content) IN
              IF ~data.ok \/ data.val.t # "dict"
              THEN [exc |-> TRUE, ip |-> PyNone]
              ELSE [exc |-> FALSE, ip |-> DictGet(data.val, IpKey)]
         ELSE [exc |-> FALSE, ip |-> IF FullMatch(content) THEN PyStr(content) ELSE PyNone]

\* One pass of the loop, lines 135-159, for the answer r of the GET of url:
\* how the pass ends (throw: an exception reached `continue`; status: the
\* status was not 200; noip: nothing usable in the body; ip: line 156
\* returns) and the ip it found.
AltPass(url, r) ==
    IF r.kind = "throw" THEN [tag |-> "throw", ip |-> PyNone]
    ELSE IF r.status # OkStatus THEN [tag |-> "status", ip |-> PyNone]
    ELSE LET p == AltParse(url, r) IN
         IF ~p.exc /\ Truthy(p.ip) THEN [tag |-> "ip", ip |-> p.ip]
         ELSE [tag |-> "noip", ip |-> PyNone]

\* AfterPass with an exception ending the scan
AfterPassStopsOnThrow(tag, i) ==
    IF tag = "ip" THEN "return"
    ELSE IF tag # "throw" /\ i < Len(alternatives) THEN "continue"
    ELSE "exhausted"

\* Lines 155-161: what follows a pass of the loop that ended with tag, for
\* entry i of the list
AfterPass(tag, i) ==
    IF tag = "ip" THEN "return"
    ELSE IF i < Len(alternatives) THEN "continue"
    ELSE "exhausted"

\* AltPass, tabulated over the list and the possible answers
AltPassOf == [i \in 1..Len(alternatives) |-> [r \in Responses |-> AltPass(alternatives[i], r)]]

Unset == [t |-> "unset"]

NoFailure == [msg |-> "none"]

Init ==
    /\ api_service \in Services
    /\ api_url \in ApiUrls
    /\ pc = "start"
    /\ idx = 0
    /\ gets = <<>>
    /\ resp = NoResponse
    /\ outcomes = <<>>
    /\ warned = FALSE
    /\ result = Unset
    /\ failure = NoFailure

\* module.fail_json(msg=...): the module exits, nothing is returned
FailJson(f) ==
    /\ pc' = "failed"
    /\ failure' = f
    /\ result' = Unset

\* run(), lines 65-74: the request is refused before any GET
RunRejects ==
    /\ pc = "start"
    /\ Rejected(api_service, api_url)
    /\ IF service_urls(api_url)[api_service] = ""
       THEN FailJson([msg |-> "Unsupported API service", service |-> api_service])
       ELSE FailJson([msg |-> "Custom API service requires api_url parameter"])
    /\ UNCHANGED <<api_service, api_url, idx, gets, resp, outcomes, warned>>

\* run(), lines 65-119, with the handler of main() (lines 182-183) for an
\* exception of fetch_url
RunPrimary ==
    /\ pc = "start"
    /\ ~Rejected(api_service, api_url)
    /\ \E r \in Responses :
         /\ gets' = Append(gets, service_urls(api_url)[api_service])
         /\ resp' = r
         /\ IF r.kind = "throw"
            THEN /\ FailJson([msg |-> "fetch_url raised"])
                 /\ UNCHANGED <<idx, warned>>
            ELSE IF r.status # OkStatus
            THEN IF FallbackEligible(api_service)
                 THEN /\ warned' = TRUE
                      /\ pc' = "alt"
                      /\ idx' = 1
                      /\ UNCHANGED <<result, failure>>
                 ELSE /\ FailJson([msg |-> "API request failed with status",
                                   status |-> r.status])
                      /\ UNCHANGED <<idx, warned>>
            ELSE LET p == PrimaryParse(api_service, r) IN
                 /\ UNCHANGED <<idx, warned>>
                 /\ IF p.exc
                    THEN FailJson([msg |-> "Failed to parse response"])
                    ELSE IF ~Truthy(p.ip)
                    THEN FailJson([msg |-> "Could not extract IP address from response",
                                   content |-> p.content])
                    ELSE /\ pc' = "done"
                         /\ result' = [public_ip |-> p.ip, service_used |-> api_service]
                         /\ UNCHANGED failure
    /\ UNCHANGED <<api_service, api_url, outcomes>>

\* try_alternative_services, lines 134-161: one pass of the loop; the pass
\* after which the list is used up goes on to line 161
AltTry ==
    /\ pc = "alt"
    /\ idx \in 1..Len(alternatives)
    /\ \E r \in Responses :
         LET o == AltPassOf[idx][r] IN
         /\ gets' = Append(gets, alternatives[idx])
         /\ resp' = r
         /\ outcomes' = Append(outcomes, o.tag)
         /\ LET then == AfterPass(o.tag, idx) IN
            IF then = "return"
            THEN /\ pc' = "done"
                 /\ result' = [public_ip |-> o.ip, service_used |-> "alternative",
                               original_service |-> api_service]
                 /\ UNCHANGED <<idx, failure>>
            ELSE IF then = "continue"
            THEN /\ idx' = idx + 1
                 /\ UNCHANGED <<pc, result, failure>>
            ELSE /\ FailJson([msg |-> "All IP detection services are unavailable"])
                 /\ idx' = idx + 1
    /\ UNCHANGED <<api_service, api_url, warned>>

Next == RunRejects \/ RunPrimary \/ AltTry

Spec == Init /\ [][Next]_vars

----------------------------------------------------------------------------
(* Vocabulary of the properties, stated apart from the operators above.    *)

Blank == {" ", "\n", "\t", "\r"}

\* s without the blanks at its two ends
Stripped(s) ==
    LET solid == {i \in 1..Len(s) : s[i] \notin Blank} IN
    IF solid = {} THEN <<>>
    ELSE SubSeq(s, CHOOSE i \in solid : \A j \in solid : i <= j,
                   CHOOSE i \in solid : \A j \in solid : j <= i)

\* four groups of 1 to 3 digits separated by periods, and nothing else
IsDottedQuad(s) ==
    LET dots == {i \in 1..Len(s) : s[i] = "."} IN
    /\ Cardinality(dots) = 3
    /\ \A i \in (1..Len(s)) \ dots : s[i] \in {"0", "1", "2", "3", "4", "5", "6", "7", "8", "9"}
    /\ 1 \notin dots /\ Len(s) \notin dots
    /\ \A i \in dots : i + 1 \notin dots
    /\ \A i \in 1..(Len(s) - 3) : \E k \in i..(i + 3) : k \in dots

\* the pieces of s that are dotted quads, as pairs of positions
QuadsIn(s) ==
    {p \in (1..Len(s)) \X (1..Len(s)) : p[1] <= p[2] /\ IsDottedQuad(SubSeq(s, p[1], p[2]))}

ContainsDottedQuad(s) == QuadsIn(s) # {}

\* the dotted quad of s that starts first and, there, reaches furthest
FirstDottedQuad(s) ==
    LET p == CHOOSE q \in QuadsIn(s) :
                 \A o \in QuadsIn(s) : q[1] < o[1] \/ (q[1] = o[1] /\ q[2] >= o[2])
    IN SubSeq(s, p[1], p[2])

\* a value Python takes for false: None, "", 0, {}
IsEmptyValue(x) ==
    \/ x.t = "none"
    \/ x.t \in {"str", "dict"} /\ x.v = <<>>
    \/ x.t = "num" /\ \A i \in 1..Len(x.v) : x.v[i] \in {"0", "."}

ConfigMsgs == {"Unsupported API service", "Custom API service requires api_url parameter"}

ParseMsgs == {"Failed to parse response", "Could not extract IP address from response"}

RequestMsg == "API request failed with status"

UnavailableMsg == "All IP detection services are unavailable"

ExpectedOrder ==
    <<"https://api.ipify.org?format=json", "https://ifconfig.me/ip",
      "https://ident.me", "https://icanhazip.com">>

\* the last GET was answered with status 200 and a body that could be read
GotBody == resp.kind = "http" /\ resp.status = 200 /\ resp.readable

\* the last GET was answered with a status other than 200
GotBadStatus == resp.kind = "http" /\ resp.status # 200

LastOutcome == outcomes[Len(outcomes)]

AlternativeResult(ip) ==
    [public_ip |-> ip, service_used |-> "alternative", original_service |-> "2ip"]

----------------------------------------------------------------------------
(* C1 *)

\* C1 as stated: for api_service = '2ip' a primary status other than 200
\* leads into the fallback chain instead of a failure, and when the FIRST
\* fallback candidate answers 200 with a dotted quad surrounded by
\* whitespace the result is {public_ip: the stripped body, service_used:
\* 'alternative', original_service: '2ip'}.
C1_FirstCandidatePlainText ==
    api_service = "2ip" =>
        /\ (Len(gets) = 1 /\ GotBadStatus) => (pc = "alt" /\ failure = NoFailure)
        /\ (Len(gets) = 2 /\ GotBody /\ IsDottedQuad(Stripped(resp.body)))
               => (pc = "done" /\ result = AlternativeResult(PyStr(Stripped(resp.body))))

\* C1 amended: for api_service = '2ip' a primary status other than 200
\* leads into the fallback chain (with a warning) instead of a failure, and
\* a result returned after that is the chain's.  When a candidate after
\* the first answers 200 with a dotted quad surrounded by whitespace, the
\* result is {public_ip: the stripped body, service_used: 'alternative',
\* original_service: '2ip'}.  The first candidate is read as JSON: such a
\* body yields nothing there and the next candidate is tried.
C1_Fallback ==
    api_service = "2ip" =>
        /\ (Len(gets) = 1 /\ GotBadStatus)
               => (pc = "alt" /\ idx = 1 /\ warned /\ failure = NoFailure /\ result = Unset)
        /\ (pc = "done" /\ warned)
               => (result.service_used = "alternative" /\ result.original_service = "2ip")
        /\ (Len(gets) >= 3 /\ GotBody /\ IsDottedQuad(Stripped(resp.body)))
               => (pc = "done" /\ result = AlternativeResult(PyStr(Stripped(resp.body))))
        /\ (Len(gets) = 2 /\ GotBody /\ IsDottedQuad(Stripped(resp.body)))
               => (pc = "alt" /\ idx = 2 /\ LastOutcome = "noip" /\ result = Unset)

\* the second candidate answered "1.20.3.4\n" and its stripped body was returned
C1_Witness ==
    /\ api_service = "2ip" /\ pc = "done" /\ Len(gets) = 3
    /\ resp.kind = "http" /\ resp.body = GoodIp \o <<"\n">>
    /\ result = AlternativeResult(PyStr(GoodIp))

----------------------------------------------------------------------------
(* C2 *)

\* C2: once the fallback chain is entered, a candidate that fails (status
\* other than 200, exception, or a 200 body without a usable IP) never ends
\* the scan before the last candidate: the scan goes on to the next
\* candidate, and when all four have failed run() ends with 'All IP
\* detection services are unavailable' and no result.
C2_Exhaustion ==
    LET n == Len(outcomes) IN
    /\ (n >= 1 /\ resp.kind = "throw") => LastOutcome = "throw"
    /\ (n >= 1 /\ GotBadStatus) => LastOutcome = "status"
    /\ (n >= 1 /\ n < 4 /\ LastOutcome \in {"throw", "status", "noip"})
           => (pc = "alt" /\ idx = n + 1 /\ failure = NoFailure)
    /\ (n = 4 /\ \A k \in 1..4 : outcomes[k] \in {"throw", "status", "noip"})
           => (pc = "failed" /\ failure = [msg |-> UnavailableMsg] /\ result = Unset)
    /\ (pc = "failed" /\ warned)
           => (n = 4 /\ Len(gets) = 5 /\ failure = [msg |-> UnavailableMsg])

\* the four candidates failed in the three ways and run() gave up
C2_Witness ==
    /\ pc = "failed" /\ failure.msg = UnavailableMsg
    /\ outcomes = <<"throw", "status", "noip", "noip">>
    /\ GotBody

----------------------------------------------------------------------------
(* C3 *)

\* C3: with api_service = 'custom' and an empty api_url run() can only fail
\* with a configuration error: no GET is ever issued, whatever the network
\* would answer, and nothing is returned.
C3_CustomNeedsUrl ==
    (api_service = "custom" /\ api_url = "") =>
        /\ gets = <<>> /\ resp = NoResponse /\ result = Unset
        /\ \/ pc = "start" /\ ENABLED RunRejects /\ ~ENABLED RunPrimary
           \/ pc = "failed" /\ failure.msg \in ConfigMsgs

C3_Witness ==
    /\ api_service = "custom" /\ api_url = ""
    /\ pc = "failed" /\ failure.msg \in ConfigMsgs /\ gets = <<>>

----------------------------------------------------------------------------
(* C4 *)

\* C4: in every result run() returns, on the primary path or the fallback
\* path, public_ip is a string of four groups of 1 to 3 digits separated
\* by periods.
C4_PublicIpIsDottedQuad ==
    pc = "done" => (result.public_ip.t = "str" /\ IsDottedQuad(result.public_ip.v))

----------------------------------------------------------------------------
(* C5 *)

\* C5: for api_service = 'ipify' and a 200 response, a result returned has
\* as public_ip the value of the member 'ip' of the body read as a JSON
\* object, and run() fails with a parse error, returning nothing, when the
\* body is not JSON, not an object, or 'ip' is missing or empty.
C5_IpifyJson ==
    (api_service = "ipify" /\ Len(gets) = 1 /\ GotBody) =>
        LET d     == JsonLoads(Stripped(resp.body))
            isObj == d.ok /\ d.val.t = "dict"
            field == IF isObj THEN DictGet(d.val, IpKey) ELSE PyNone
        IN /\ pc \in {"done", "failed"}
           /\ pc = "done" => (isObj /\ result = [public_ip |-> field, service_used |-> "ipify"])
           /\ (~isObj \/ field = PyNone \/ field = PyStr(<<>>))
                  => (pc = "failed" /\ failure.msg \in ParseMsgs /\ result = Unset)

\* {"ip":"1.20.3.4"} was answered and 1.20.3.4 returned
C5_Witness ==
    /\ api_service = "ipify" /\ pc = "done" /\ GotBody
    /\ resp.body = IpObject(Quoted(GoodIp))
    /\ result = [public_ip |-> PyStr(GoodIp), service_used |-> "ipify"]

----------------------------------------------------------------------------
(* C6 *)

\* C6: for every api_service other than '2ip' a primary status other than
\* 200 makes run() fail with 'API request failed with status' carrying
\* that status; the fallback chain is never entered (one GET at most, no
\* warning) and nothing is returned.
C6_RequestError ==
    api_service # "2ip" =>
        /\ Len(gets) <= 1 /\ idx = 0 /\ ~warned /\ outcomes = <<>> /\ pc # "alt"
        /\ (Len(gets) = 1 /\ GotBadStatus)
               => /\ pc = "failed"
                  /\ failure = [msg |-> RequestMsg, status |-> resp.status]
                  /\ result = Unset

\* ifconfig.me answered 503 to the primary GET and run() failed with it
C6_Witness ==
    /\ api_service = "ipme" /\ pc = "failed" /\ Len(gets) = 1
    /\ failure.msg = RequestMsg /\ failure.status = 503

----------------------------------------------------------------------------
(* C7 *)

\* C7: a result of the primary path (service_used is the service asked for)
\* comes after exactly one GET; a GET after the first is issued only inside
\* the fallback chain, which is entered only when '2ip' got a primary
\* status other than 200; no run issues more than 1 + 4 GETs.
C7_GetCount ==
    /\ [](/\ Len(gets) <= 5
          /\ (pc = "done" /\ result.service_used = api_service) => Len(gets) = 1
          /\ Len(gets) >= 2 => (api_service = "2ip" /\ warned))
    /\ [][/\ Len(gets') <= Len(gets) + 1
          /\ (Len(gets') > Len(gets) /\ Len(gets) >= 1) => pc = "alt"
          /\ (pc # "alt" /\ pc' = "alt")
                 => /\ api_service = "2ip" /\ Len(gets) = 0 /\ Len(gets') = 1
                    /\ resp'.kind = "http" /\ resp'.status # 200]_vars

\* a primary result after one GET
C7_Witness ==
    /\ pc = "done" /\ result.service_used = api_service /\ Len(gets) = 1

----------------------------------------------------------------------------
(* C8 *)

\* C8: the fallback candidates are requested in the order api.ipify.org
\* (JSON), ifconfig.me/ip, ident.me, icanhazip.com, each at most once and
\* each only after all the earlier ones were requested and yielded no IP;
\* the candidate that yields an IP is the last one requested, and its IP
\* is returned.
C8_Order ==
    /\ Len(gets) >= 1 => /\ SubSeq(gets, 2, Len(gets)) = SubSeq(ExpectedOrder, 1, Len(gets) - 1)
                         /\ Len(outcomes) = Len(gets) - 1
    /\ gets = <<>> => outcomes = <<>>
    /\ pc = "alt" => idx = Len(outcomes) + 1
    /\ \A k \in 1..Len(outcomes) :
           outcomes[k] = "ip" <=> (k = Len(outcomes) /\ pc = "done")

\* the third candidate yielded after two failures; the fourth was not asked
C8_Witness ==
    /\ pc = "done" /\ outcomes = <<"noip", "status", "ip">>
    /\ gets = <<"https://2ip.io", "https://api.ipify.org?format=json",
                "https://ifconfig.me/ip", "https://ident.me">>

----------------------------------------------------------------------------
(* C9 *)

\* no IP in a 200 body: for ipify no JSON object with a non-empty 'ip', for
\* the other services no dotted quad anywhere in the stripped body
NoIpIn(service, body) ==
    IF service = "ipify"
    THEN LET d == JsonLoads(Stripped(body)) IN
         ~d.ok \/ d.val.t # "dict" \/ IsEmptyValue(DictGet(d.val, IpKey))
    ELSE ~ContainsDottedQuad(Stripped(body))

\* C9: when the primary GET returns 200 and no IP can be extracted from the
\* body, run() fails with a parse error for every service, '2ip' included:
\* the fallback chain is not entered, no further GET is issued, and no
\* result with an absent or empty public_ip is ever returned.
C9_ParseError ==
    /\ (Len(gets) = 1 /\ GotBody /\ NoIpIn(api_service, resp.body))
           => /\ pc = "failed" /\ failure.msg \in ParseMsgs
              /\ result = Unset /\ ~warned /\ idx = 0 /\ outcomes = <<>>
    /\ pc = "done" => ~IsEmptyValue(result.public_ip)

\* 2ip answered 200 with a body without any IP and run() failed at once
C9_Witness ==
    /\ api_service = "2ip" /\ pc = "failed" /\ Len(gets) = 1 /\ GotBody
    /\ resp.body = <<"x">> \o <<"1", ".", "2", "0", ".", "3", ".">>
    /\ failure.msg = "Could not extract IP address from response"

----------------------------------------------------------------------------
(* C10 *)

\* C10: on the primary path a 200 body of a service other than ipify that
\* contains a dotted quad yields the first such piece as public_ip; in the
\* fallback chain a candidate that is not the JSON one yields an IP only
\* when its whole stripped body is a dotted quad, and a body that merely
\* contains one yields nothing: the scan goes on to the next candidate (or
\* gives up after the last).
C10_Asymmetry ==
    /\ (Len(gets) = 1 /\ api_service # "ipify" /\ GotBody
            /\ ContainsDottedQuad(Stripped(resp.body)))
           => /\ pc = "done"
              /\ result = [public_ip |-> PyStr(FirstDottedQuad(Stripped(resp.body))),
                           service_used |-> api_service]
    /\ (Len(gets) >= 3 /\ GotBody)
           => IF IsDottedQuad(Stripped(resp.body))
              THEN pc = "done" /\ result.public_ip = PyStr(Stripped(resp.body))
              ELSE /\ LastOutcome = "noip" /\ result = Unset
                   /\ IF Len(gets) < 5 THEN pc = "alt" /\ idx = Len(gets)
                      ELSE pc = "failed"

\* ifconfig.me answered "x1.20.3.4" in the chain: no IP, ident.me is next
C10_Witness ==
    /\ pc = "alt" /\ idx = 3 /\ Len(gets) = 3 /\ GotBody
    /\ resp.body = <<"x">> \o GoodIp
    /\ LastOutcome = "noip"

====
